---------------------------- MODULE Spec2Model ----------------------------
(***************************************************************************)
(* blink-lapse (src/capture.py): authenticate with the camera service,     *)
(* resolve the camera set, then repeat [refresh, capture every camera,     *)
(* sleep].                                                                 *)
(*                                                                         *)
(* The program is one coroutine.  pc names the blocking call the coroutine *)
(* is suspended in (an await, a sleep or an input() prompt); an action is  *)
(* the completion of that call with one of its outcomes, followed by the   *)
(* synchronous code up to the next blocking call.  The camera service      *)
(* client (blinkpy) is external: each of its calls is a choice over the    *)
(* outcomes the calling code distinguishes (a result, or a raised error).  *)
(*                                                                         *)
(* Spec is the program with time and the account's later changes left out  *)
(* (the clock and blink.cameras stay as they start).  TimedSpec is the     *)
(* same actions with the wall clock, the sleeps and the frame files;       *)
(* ChurnSpec is the same actions with blink.cameras changing under the     *)
(* forced refreshes.                                                       *)
(***************************************************************************)
EXTENDS Integers, Sequences, FiniteSets, TLC

\* ------------------------------------------------------------- bounds
\* Longest discovered camera list.
MaxCams == 2
\* Longest --cameras list.
MaxFilterLen == 2
\* The event counters count up to MaxCount and stay there ("MaxCount or more").
MaxCount == 2

\* The clock stops the model at MaxTime seconds.
MaxTime == 25

\* Program constants.
SNAP_SETTLE_DELAY == 10
DEFAULT_INTERVAL == 600

\* Camera names the account may hold or the user may name.
Names == {"front", "back", "side"}

VARIABLES
    pc,             \* the blocking call the coroutine is suspended in
    once,           \* run_collector's once argument (--once)
    camera_filter,  \* run_collector's camera_filter argument; <<>> is None
    credFile,       \* the credentials file: "absent", or who wrote it
    path,           \* the branch of authenticate: "none", "stored", "fresh"
    session,        \* state of the current Blink object
    storedOutcome,  \* how blink.start() on the stored credentials ended
    returned,       \* state of the session authenticate returned, or "none"
    savedFrom,      \* state of the session blink.save last wrote, or "none"
    nprompt,        \* 2FA prompts shown
    available,      \* blink.available as read at line 128
    discovered,     \* names of blink.cameras, in dict order
    cameras,        \* names of the resolved dict `cameras`, in dict order
    dirs,           \* output directories ensured by this run
    idx,            \* position in `cameras` of the camera being captured
    attempted,      \* cameras capture_frame was called for in this cycle
    results,        \* how each finished capture_frame call of this cycle ended
    nrefresh,       \* blink.refresh(force=True) calls issued
    nsnap,          \* camera.snap_picture() calls issued
    ndownload,      \* camera.image_to_file() calls issued
    cycles,         \* passes of the while loop started
    interrupted,    \* a user interrupt was delivered
    uncaught,       \* exception that left run_collector, or "none"
    exitCode,       \* -1 while running; 0; 1 stands for any non-zero status
    logged,         \* log records written, by tag
    interval,       \* run_collector's interval argument (--interval), seconds
    now,            \* the wall clock, whole seconds
    cycleStart,     \* clock at the start of the current cycle (line 161)
    period,         \* delay between the last two cycle starts; -1 before
    trigTime,       \* clock when the current capture's snapshot was triggered
    filename,       \* timestamp in the current capture's file name (line 93)
    events,         \* what the current capture_frame call has done, in order
    cycleRefreshes, \* forced refreshes issued since the current cycle began
    targets,        \* per camera, the file names image_to_file was given
    overwrote,      \* image_to_file was given a name it had been given before
    account         \* blink.cameras as the client holds it now

inputs    == <<once, camera_filter>>
authVars  == <<credFile, path, session, storedOutcome, returned, savedFrom,
               nprompt>>
setupVars == <<available, discovered, cameras, dirs>>
loopVars  == <<idx, attempted, results, nrefresh, nsnap, ndownload, cycles>>
endVars   == <<interrupted, uncaught, exitCode, logged>>
timeVars  == <<interval, now, cycleStart, period, trigTime, filename, events,
               cycleRefreshes, targets, overwrote>>
vars == <<pc, inputs, authVars, setupVars, loopVars, endVars, timeVars,
          account>>

\* ------------------------------------------------------------ helpers
Range(s) == {s[i] : i \in DOMAIN s}

SeqsUpTo(S, n) == UNION {[1..k -> S] : k \in 0..n}

NoDup(s) == \A i, j \in DOMAIN s : i # j => s[i] # s[j]

Inc(n) == IF n < MaxCount THEN n + 1 ELSE n

\* blink.cameras is a dict: its keys are distinct.
Discoverable == {s \in SeqsUpTo(Names, MaxCams) : NoDup(s)}

\* main() passes None (here <<>>) or a non-empty list: argparse nargs="+"
\* and BLINK_CAMERAS.split(",") never give an empty list.
Filters == SeqsUpTo(Names, MaxFilterLen)

\* Exceptions.  BlinkTwoFARequiredError and every other error of the client
\* derive from Exception; KeyboardInterrupt, SystemExit and
\* asyncio.CancelledError do not.
ClientErrors == {"Error"}

\* `except Exception` around capture_frame.
CaughtPerCameraNothing(e) == FALSE
CaughtPerCamera(e) == e \in {"TwoFARequired", "Error"}

\* `except KeyboardInterrupt` around the while loop (what an interrupt raises
\* inside the coroutine is InterruptRaises, below).
CaughtOuter(e) == e = "KeyboardInterrupt"

\* `if camera_filter:` -- None and [] are both falsy.
HasFilter(f) == f # <<>>

\* {k: v for k, v in cameras.items() if k in camera_filter}
FilterCamerasInFilterOrder(disc, filt) ==
    SelectSeq(filt, LAMBDA k : k \in Range(disc))
FilterCameras(disc, filt) ==
    SelectSeq(disc, LAMBDA k : k \in Range(filt))

\* `if not cameras:` (after discovery and after filtering)
NoCamerasNever(cams) == FALSE
NoCameras(cams) == cams = <<>>

\* `if not ok:` in _do_2fa -- the rejected code ends the process.
Do2faNeverExits(ok) == FALSE
Do2faExits(ok) == ~ok

\* The for loop goes on to the next item after the handler of line 166.
AfterFailureAbortsCycle(i) == Len(cameras) + 1
AfterFailure(i) == i + 1

\* `for name, camera in cameras.items()`: the loop walks the dict resolved at
\* startup, not blink.cameras.
IteratedLive == account
Iterated == cameras

\* A return of authenticate at save point p has `await blink.save(...)` before
\* it (lines 59, 64, 79).
PersistsOnlyFresh(p) == p = "fresh_save"
Persists(p) == p \in {"stored_save", "stored_2fa_save", "fresh_save"}

\* `filename.exists() and filename.stat().st_size > 0`
VerifyFileExistsOnly(f) == f # "absent"
VerifyFile(f) == f = "full"

\* Blocking calls inside authenticate (line 126: outside the try of line 159)
AuthPoints == {"stored_start", "fresh_login", "fresh_start", "twofa_prompt",
               "twofa_send", "stored_save", "stored_2fa_save", "fresh_save"}
\* Blocking calls of one capture_frame call
CapturePoints == {"snap", "settle", "cf_refresh", "download"}
\* Blocking calls inside the try of line 159
LoopPoints == {"cycle_refresh", "wait"} \cup CapturePoints
SuspensionPoints == AuthPoints \cup LoopPoints

\* The states of the Collector Loop as spec.md names them.
State ==
    IF pc \in {"begin"} \cup AuthPoints THEN "AUTHENTICATING"
    ELSE IF pc = "setup" THEN "READY"
    ELSE IF pc \in {"cycle_refresh"} \cup CapturePoints THEN "CAPTURING"
    ELSE IF pc = "wait" THEN "WAITING"
    ELSE "STOPPED"

\* ---------------------------------------------------------------- Init
\* Everything but the arguments and the credentials file.
Started ==
    /\ pc = "begin"
    /\ path = "none"
    /\ session = "none"
    /\ storedOutcome = "none"
    /\ returned = "none"
    /\ savedFrom = "none"
    /\ nprompt = 0
    /\ available = "unknown"
    /\ discovered = <<>>
    /\ cameras = <<>>
    /\ dirs = {}
    /\ idx = 0
    /\ attempted = <<>>
    /\ results = <<>>
    /\ nrefresh = 0
    /\ nsnap = 0
    /\ ndownload = 0
    /\ cycles = 0
    /\ interrupted = FALSE
    /\ uncaught = "none"
    /\ exitCode = -1
    /\ logged = {}
    /\ now = 0
    /\ cycleStart = 0
    /\ period = -1
    /\ trigTime = 0
    /\ filename = <<>>
    /\ events = <<>>
    /\ cycleRefreshes = 0
    /\ targets = [c \in Names |-> {}]
    /\ overwrote = FALSE
    /\ account = <<>>

Init ==
    /\ once \in BOOLEAN
    /\ camera_filter \in Filters
    /\ interval = DEFAULT_INTERVAL
    /\ credFile \in {"absent", "login"}
    /\ Started

\* The process ends: run_collector returned (code 0), or exception e left it.
Terminate(code, e) ==
    /\ pc' = "stopped"
    /\ exitCode' = code
    /\ uncaught' = e

\* ------------------------------------------------------- authenticate
\* Lines 49-55 / 68: which branch, up to its first blocking call.
AuthBegin ==
    /\ pc = "begin"
    /\ IF credFile # "absent"
       THEN /\ pc' = "stored_start"
            /\ path' = "stored"
       ELSE /\ pc' = "fresh_login"
            /\ path' = "fresh"
    /\ session' = "starting"
    /\ UNCHANGED <<inputs, credFile, storedOutcome, returned, savedFrom,
                   nprompt, setupVars, loopVars, endVars>>

\* Line 57: blink.start() on the stored credentials completes.
StoredStart ==
    /\ pc = "stored_start"
    /\ \E r \in {"ok", "false", "TwoFARequired"} \cup ClientErrors :
        /\ storedOutcome' = r
        /\ CASE r = "ok" ->
                  /\ session' = "started"
                  /\ pc' = "stored_save"
                  /\ UNCHANGED <<path, nprompt, endVars>>
             [] r = "false" ->
                  \* line 61, then lines 68-72
                  /\ logged' = logged \cup {"warn_saved_failed"}
                  /\ session' = "starting"
                  /\ path' = "fresh"
                  /\ pc' = "fresh_login"
                  /\ UNCHANGED <<nprompt, interrupted, uncaught, exitCode>>
             [] r = "TwoFARequired" ->
                  \* line 62-63, into _do_2fa's input()
                  /\ session' = "need2fa"
                  /\ nprompt' = Inc(nprompt)
                  /\ pc' = "twofa_prompt"
                  /\ UNCHANGED <<path, endVars>>
             [] OTHER ->
                  \* no handler: the error leaves authenticate and run_collector
                  /\ session' = "errored"
                  /\ Terminate(1, r)
                  /\ UNCHANGED <<path, nprompt, interrupted, logged>>
    /\ UNCHANGED <<inputs, credFile, returned, savedFrom, setupVars, loopVars>>

\* Lines 68-72: username and password from the environment or from input().
FreshLogin ==
    /\ pc = "fresh_login"
    /\ pc' = "fresh_start"
    /\ UNCHANGED <<inputs, authVars, setupVars, loopVars, endVars>>

\* Lines 74-79: blink.start() of the fresh login completes; its result is
\* not looked at.
FreshStart ==
    /\ pc = "fresh_start"
    /\ \E r \in {"ok", "false", "TwoFARequired"} \cup ClientErrors :
        CASE r = "ok" ->
                  /\ session' = "started"
                  /\ pc' = "fresh_save"
                  /\ UNCHANGED <<nprompt, endVars>>
          [] r = "false" ->
                  /\ session' = "failed"
                  /\ pc' = "fresh_save"
                  /\ UNCHANGED <<nprompt, endVars>>
          [] r = "TwoFARequired" ->
                  /\ session' = "need2fa"
                  /\ nprompt' = Inc(nprompt)
                  /\ pc' = "twofa_prompt"
                  /\ UNCHANGED endVars
          [] OTHER ->
                  /\ session' = "errored"
                  /\ Terminate(1, r)
                  /\ UNCHANGED <<nprompt, interrupted, logged>>
    /\ UNCHANGED <<inputs, credFile, path, storedOutcome, returned, savedFrom,
                   setupVars, loopVars>>

\* _do_2fa, line 34: the code is typed in.
TwoFaPrompt ==
    /\ pc = "twofa_prompt"
    /\ pc' = "twofa_send"
    /\ UNCHANGED <<inputs, authVars, setupVars, loopVars, endVars>>

\* _do_2fa, lines 35-38: send_2fa_code completes; back in authenticate at
\* line 64 or line 79.
TwoFaSend ==
    /\ pc = "twofa_send"
    /\ \E ok \in BOOLEAN :
        /\ session' = IF ok THEN "verified" ELSE "rejected"
        /\ IF Do2faExits(ok)
           THEN /\ logged' = logged \cup {"err_2fa"}
                /\ Terminate(1, "SystemExit")
                /\ UNCHANGED interrupted
           ELSE /\ pc' = IF path = "stored" THEN "stored_2fa_save"
                                             ELSE "fresh_save"
                /\ UNCHANGED endVars
    /\ UNCHANGED <<inputs, credFile, path, storedOutcome, returned, savedFrom,
                   nprompt, setupVars, loopVars>>

\* What blink.save writes: the login data of the session it is called on.
SavedBy(s) == IF s \in {"started", "verified"} THEN "login" ELSE "nologin"

\* Lines 59-60, 64-65, 79-81: blink.save completes, authenticate returns.
Save ==
    /\ pc \in {"stored_save", "stored_2fa_save", "fresh_save"}
    /\ IF Persists(pc)
       THEN /\ credFile' = SavedBy(session)
            /\ savedFrom' = session
       ELSE UNCHANGED <<credFile, savedFrom>>
    /\ returned' = session
    /\ pc' = "setup"
    /\ UNCHANGED <<inputs, path, session, storedOutcome, nprompt,
                   setupVars, loopVars, endVars>>


\* ------------------------------------------------------ run_collector
\* Top of the while loop, line 161: the forced refresh of a cycle is issued.
StartCycle ==
    /\ pc' = "cycle_refresh"
    /\ nrefresh' = Inc(nrefresh)
    /\ cycles' = Inc(cycles)
    /\ idx' = 0
    /\ attempted' = <<>>
    /\ results' = <<>>

\* What run_collector resolves from the discovered cameras, lines 139-140.
Resolve(disc, filt) ==
    IF HasFilter(filt) THEN FilterCameras(disc, filt) ELSE disc

\* Lines 128-161: authenticate has returned; availability, discovery,
\* filter, output directories, then the first cycle's refresh.  No blocking
\* call in between.
Setup ==
    /\ pc = "setup"
    /\ \E avail \in BOOLEAN, disc \in Discoverable :
        IF ~avail
        THEN /\ available' = "no"
             /\ logged' = logged \cup {"err_unavailable"}
             /\ Terminate(0, "none")
             /\ UNCHANGED <<discovered, cameras, dirs, loopVars>>
        ELSE IF NoCameras(disc)
        THEN /\ available' = "yes"
             /\ discovered' = disc
             /\ logged' = logged \cup {"err_no_cameras"}
             /\ Terminate(0, "none")
             /\ UNCHANGED <<cameras, dirs, loopVars>>
        ELSE IF HasFilter(camera_filter)
                /\ NoCameras(Resolve(disc, camera_filter))
        THEN /\ available' = "yes"
             /\ discovered' = disc
             /\ cameras' = Resolve(disc, camera_filter)
             /\ logged' = logged \cup {"err_no_match"}
             /\ Terminate(0, "none")
             /\ UNCHANGED <<dirs, loopVars>>
        ELSE /\ available' = "yes"
             /\ discovered' = disc
             /\ cameras' = Resolve(disc, camera_filter)
             /\ dirs' = Range(Resolve(disc, camera_filter))
             /\ StartCycle
             /\ UNCHANGED <<nsnap, ndownload, uncaught, exitCode, logged>>
    /\ UNCHANGED <<inputs, authVars, interrupted>>

\* Lines 163-173 from item i of the for loop on: the next capture_frame call
\* up to its snap_picture (lines 93-97), or the end of the cycle.
LoopContinue(i) ==
    IF i <= Len(Iterated)
    THEN /\ pc' = "snap"
         /\ idx' = i
         /\ attempted' = Append(attempted, Iterated[i])
         /\ nsnap' = Inc(nsnap)
         /\ UNCHANGED <<uncaught, exitCode>>
    ELSE IF once
    THEN /\ Terminate(0, "none")
         /\ UNCHANGED <<idx, attempted, nsnap>>
    ELSE /\ pc' = "wait"
         /\ UNCHANGED <<idx, attempted, nsnap, uncaught, exitCode>>

\* Exception e reaches the handler of line 174.
Propagate(e) ==
    IF CaughtOuter(e)
    THEN /\ logged' = logged \cup {"stopped_by_user"}
         /\ Terminate(0, "none")
    ELSE /\ Terminate(1, e)
         /\ UNCHANGED logged

\* A call inside capture_frame raised e: capture_frame has no handler, the
\* exception reaches line 166, which logs it (the traceback and the warning of
\* line 114 are not kept in `logged`: `results` tells them).
CaptureRaised(e) ==
    /\ results' = Append(results, [ret |-> "raised", file |-> "none"])
    /\ IF CaughtPerCamera(e)
       THEN /\ LoopContinue(AfterFailure(idx))
            /\ UNCHANGED logged
       ELSE /\ Propagate(e)
            /\ UNCHANGED <<idx, attempted, nsnap>>

\* Line 161: the cycle's forced refresh completes.
CycleRefresh ==
    /\ pc = "cycle_refresh"
    /\ \E r \in {"ok"} \cup ClientErrors :
        IF r = "ok"
        THEN /\ LoopContinue(1)
             /\ UNCHANGED logged
        ELSE /\ Propagate(r)
             /\ UNCHANGED <<idx, attempted, nsnap>>
    /\ UNCHANGED <<inputs, authVars, setupVars, results, nrefresh, ndownload,
                   cycles, interrupted>>

\* Line 97: camera.snap_picture() completes.
Snap ==
    /\ pc = "snap"
    /\ \E r \in {"ok"} \cup ClientErrors :
        IF r = "ok"
        THEN /\ pc' = "settle"
             /\ UNCHANGED <<idx, attempted, results, nsnap, uncaught,
                            exitCode, logged>>
        ELSE CaptureRaised(r)
    /\ UNCHANGED <<inputs, authVars, setupVars, nrefresh, ndownload, cycles,
                   interrupted>>

\* Lines 102-105: the settle delay elapses, the forced refresh is issued.
Settle ==
    /\ pc = "settle"
    /\ pc' = "cf_refresh"
    /\ nrefresh' = Inc(nrefresh)
    /\ UNCHANGED <<inputs, authVars, setupVars, idx, attempted, results,
                   nsnap, ndownload, cycles, endVars>>

\* Lines 105-108: the refresh completes, the download is issued.
CfRefresh ==
    /\ pc = "cf_refresh"
    /\ \E r \in {"ok"} \cup ClientErrors :
        IF r = "ok"
        THEN /\ pc' = "download"
             /\ ndownload' = Inc(ndownload)
             /\ UNCHANGED <<idx, attempted, results, nsnap, uncaught,
                            exitCode, logged>>
        ELSE /\ CaptureRaised(r)
             /\ UNCHANGED ndownload
    /\ UNCHANGED <<inputs, authVars, setupVars, nrefresh, cycles, interrupted>>

\* Lines 108-115: image_to_file completes, leaving the output file full,
\* empty or absent; the file is verified and capture_frame returns.
Download ==
    /\ pc = "download"
    /\ \E r \in {"full", "empty", "absent"} \cup ClientErrors :
        IF r \in ClientErrors
        THEN CaptureRaised(r)
        ELSE /\ results' = Append(results,
                    [ret |-> IF VerifyFile(r) THEN "true" ELSE "false",
                     file |-> r])
             /\ LoopContinue(idx + 1)
             /\ UNCHANGED logged
    /\ UNCHANGED <<inputs, authVars, setupVars, nrefresh, ndownload, cycles,
                   interrupted>>

\* Line 173: the interval elapses; back to line 161.
Wait ==
    /\ pc = "wait"
    /\ StartCycle
    /\ UNCHANGED <<inputs, authVars, setupVars, nsnap, ndownload, endVars>>

\* What a user interrupt raises inside the coroutine.  run_collector runs
\* under asyncio.run (line 231), which answers SIGINT by cancelling the main
\* task: the blocking call the coroutine is suspended in raises
\* CancelledError, and KeyboardInterrupt is raised by asyncio.run itself, in
\* main, once the task has ended (before Python 3.11 it is raised in the event
\* loop, and the task is cancelled the same way while the loop is torn down).
InterruptRaises == "CancelledError"

\* A user interrupt while the coroutine is suspended.  Inside the try of line
\* 159 the exception passes `except Exception` and reaches the handler of
\* line 174; inside authenticate (line 126) no handler encloses it.  What
\* leaves run_collector leaves main (no handler around line 231): a
\* traceback and a non-zero exit status.
Interrupt ==
    /\ pc \in SuspensionPoints
    /\ ~interrupted
    /\ interrupted' = TRUE
    /\ IF pc \in LoopPoints
       THEN Propagate(InterruptRaises)
       ELSE /\ Terminate(1, InterruptRaises)
            /\ UNCHANGED logged
    /\ UNCHANGED <<inputs, authVars, setupVars, loopVars>>

\* authenticate: no step of it reads the clock or blink.cameras.
Authenticate ==
    \/ AuthBegin
    \/ StoredStart
    \/ FreshLogin
    \/ FreshStart
    \/ TwoFaPrompt
    \/ TwoFaSend
    \/ Save

Next ==
    \/ Authenticate /\ UNCHANGED <<timeVars, account>>
    \/ Setup /\ UNCHANGED <<timeVars, account>>
    \/ CycleRefresh /\ UNCHANGED <<timeVars, account>>
    \/ Snap /\ UNCHANGED <<timeVars, account>>
    \/ Settle /\ UNCHANGED <<timeVars, account>>
    \/ CfRefresh /\ UNCHANGED <<timeVars, account>>
    \/ Download /\ UNCHANGED <<timeVars, account>>
    \/ Wait /\ UNCHANGED <<timeVars, account>>
    \/ Interrupt /\ UNCHANGED <<timeVars, account>>

Spec == Init /\ [][Next]_vars

\* ------------------------------------------------ the clock and the files
\* --interval values tried; 5 is the interval of spec.md's scenario.
Intervals == {0, 5}

\* Seconds a call to the client may take: none, or some.
CallDurations == {0, 5}

\* datetime.now().strftime("%Y%m%d_%H%M%S"): the clock's date-to-minute
\* fields (here the count of minutes) and its seconds field.
TimestampToMinute(t) == <<t \div 60, 0>>
Timestamp(t) == <<t \div 60, t % 60>>

\* `await asyncio.sleep(SNAP_SETTLE_DELAY)` begun at t ends at
AfterNoSettle(t) == t
AfterSettle(t) == t + SNAP_SETTLE_DELAY

\* `await asyncio.sleep(interval)` begun at t ends at
AfterWaitFixedRate(t, iv) == IF cycleStart + iv > t THEN cycleStart + iv ELSE t
AfterWait(t, iv) == t + iv

\* `await blink.refresh(force=True)` is one more forced refresh.
IssueNoRefresh(n) == n
IssueRefresh(n) == n + 1

\* The client call in flight takes d seconds.
CallTakes(d) ==
    /\ now + d <= MaxTime
    /\ now' = now + d

\* Line 161 reached at clock t.
TimedStartCycle(t) ==
    /\ cycleStart' = t
    /\ period' = IF cycles > 0 THEN t - cycleStart ELSE -1
    /\ cycleRefreshes' = IssueRefresh(0)

\* Lines 93-97 at clock t, when the step just taken began a capture_frame
\* call; otherwise the capture's record stays.
TimedBeginCapture(t) ==
    IF pc' = "snap"
    THEN /\ filename' = Timestamp(t)
         /\ trigTime' = t
         /\ events' = <<"stamp", "snap">>
    ELSE UNCHANGED <<filename, trigTime, events>>

TimedSetup ==
    /\ Setup
    /\ IF pc' = "cycle_refresh"
       THEN TimedStartCycle(now)
       ELSE UNCHANGED <<cycleStart, period, cycleRefreshes>>
    /\ UNCHANGED <<interval, now, trigTime, filename, events, targets,
                   overwrote>>

TimedCycleRefresh ==
    /\ CycleRefresh
    /\ \E d \in CallDurations : CallTakes(d)
    /\ TimedBeginCapture(now')
    /\ UNCHANGED <<interval, cycleStart, period, cycleRefreshes, targets,
                   overwrote>>

TimedSnap ==
    /\ Snap
    /\ \E d \in CallDurations : CallTakes(d)
    /\ TimedBeginCapture(now')
    /\ UNCHANGED <<interval, cycleStart, period, cycleRefreshes, targets,
                   overwrote>>

TimedSettle ==
    /\ Settle
    /\ AfterSettle(now) <= MaxTime
    /\ now' = AfterSettle(now)
    /\ events' = events \o <<"settle", "refresh">>
    /\ cycleRefreshes' = IssueRefresh(cycleRefreshes)
    /\ UNCHANGED <<interval, cycleStart, period, trigTime, filename, targets,
                   overwrote>>

TimedCfRefresh ==
    /\ CfRefresh
    /\ \E d \in CallDurations : CallTakes(d)
    /\ IF pc' = "download"
       THEN /\ events' = Append(events, "download")
            /\ targets' = [targets EXCEPT ![cameras[idx]] = @ \cup {filename}]
            /\ overwrote' = (overwrote \/ filename \in targets[cameras[idx]])
            /\ UNCHANGED <<filename, trigTime>>
       ELSE /\ TimedBeginCapture(now')
            /\ UNCHANGED <<targets, overwrote>>
    /\ UNCHANGED <<interval, cycleStart, period, cycleRefreshes>>

TimedDownload ==
    /\ Download
    /\ \E d \in CallDurations : CallTakes(d)
    /\ IF pc' = "snap"
       THEN TimedBeginCapture(now')
       ELSE /\ events' = IF Len(results') > 0
                            /\ results'[Len(results')].ret # "raised"
                         THEN Append(events, "verify") ELSE events
            /\ UNCHANGED <<filename, trigTime>>
    /\ UNCHANGED <<interval, cycleStart, period, cycleRefreshes, targets,
                   overwrote>>

TimedWait ==
    /\ Wait
    /\ AfterWait(now, interval) <= MaxTime
    /\ now' = AfterWait(now, interval)
    /\ TimedStartCycle(now')
    /\ UNCHANGED <<interval, trigTime, filename, events, targets, overwrote>>

\* A run without a camera filter and without a credentials file (fresh login).
TimedInit ==
    /\ once \in BOOLEAN
    /\ camera_filter = <<>>
    /\ interval \in Intervals
    /\ credFile = "absent"
    /\ Started

TimedNext ==
    \/ Authenticate /\ UNCHANGED <<timeVars, account>>
    \/ TimedSetup /\ UNCHANGED account
    \/ TimedCycleRefresh /\ UNCHANGED account
    \/ TimedSnap /\ UNCHANGED account
    \/ TimedSettle /\ UNCHANGED account
    \/ TimedCfRefresh /\ UNCHANGED account
    \/ TimedDownload /\ UNCHANGED account
    \/ TimedWait /\ UNCHANGED account
    \/ Interrupt /\ UNCHANGED <<timeVars, account>>

TimedSpec == TimedInit /\ [][TimedNext]_vars

\* ------------------------------------------------- the account changing
\* A forced refresh is in flight: the client rebuilds blink.cameras, cameras
\* may have appeared in the account or gone from it.
AccountChanges ==
    /\ pc \in {"cycle_refresh", "cf_refresh"}
    /\ \E a \in Discoverable \ {account} : account' = a
    /\ UNCHANGED <<pc, inputs, authVars, setupVars, loopVars, endVars,
                   timeVars>>

\* Line 132 copies blink.cameras as it is then.
ChurnSetup ==
    /\ Setup
    /\ account' = discovered'

\* Filters tried while the account changes: none, or two names.
ChurnFilters == {<<>>, <<"back", "front">>}

ChurnInit ==
    /\ once \in BOOLEAN
    /\ camera_filter \in ChurnFilters
    /\ interval = DEFAULT_INTERVAL
    /\ credFile = "absent"
    /\ Started

ChurnNext ==
    \/ Authenticate /\ UNCHANGED <<timeVars, account>>
    \/ ChurnSetup /\ UNCHANGED timeVars
    \/ CycleRefresh /\ UNCHANGED <<timeVars, account>>
    \/ Snap /\ UNCHANGED <<timeVars, account>>
    \/ Settle /\ UNCHANGED <<timeVars, account>>
    \/ CfRefresh /\ UNCHANGED <<timeVars, account>>
    \/ Download /\ UNCHANGED <<timeVars, account>>
    \/ Wait /\ UNCHANGED <<timeVars, account>>
    \/ Interrupt /\ UNCHANGED <<timeVars, account>>
    \/ AccountChanges

ChurnSpec == ChurnInit /\ [][ChurnNext]_vars

TypeOK ==
    /\ pc \in {"begin", "setup", "stopped"} \cup SuspensionPoints
    /\ once \in BOOLEAN
    /\ camera_filter \in Filters
    /\ credFile \in {"absent", "login", "nologin"}
    /\ path \in {"none", "stored", "fresh"}
    /\ session \in {"none", "starting", "started", "failed", "errored",
                    "need2fa", "verified", "rejected"}
    /\ nprompt \in 0..MaxCount /\ nrefresh \in 0..MaxCount
    /\ nsnap \in 0..MaxCount /\ ndownload \in 0..MaxCount
    /\ cycles \in 0..MaxCount
    /\ available \in {"unknown", "yes", "no"}
    /\ discovered \in Discoverable
    /\ Range(cameras) \subseteq Names
    /\ dirs \subseteq Names
    /\ idx \in 0..Len(cameras)
    /\ exitCode \in {-1, 0, 1}
    /\ (pc = "stopped") = (exitCode # -1)
    /\ uncaught \in {"none", "TwoFARequired", "SystemExit", InterruptRaises}
                    \cup ClientErrors
    /\ returned \in {"none", "started", "failed", "verified"}
    /\ savedFrom \in {"none", "started", "failed", "verified"}
    /\ interval \in Intervals \cup {DEFAULT_INTERVAL}
    /\ now \in 0..MaxTime /\ cycleStart \in 0..MaxTime
    /\ trigTime \in 0..MaxTime
    /\ period \in -1..MaxTime
    /\ cycleRefreshes \in 0..(1 + MaxCams)
    /\ Range(events) \subseteq {"stamp", "snap", "settle", "refresh",
                                "download", "verify"}
    /\ \A c \in Names : IsFiniteSet(targets[c])
    /\ overwrote \in BOOLEAN
    /\ account \in Discoverable


\* ------------------------------------------------------------- claims
\* Position of name x in the discovery order.
Pos(s, x) == CHOOSE k \in DOMAIN s : s[k] = x

\* The collector has entered CAPTURING: a cycle's refresh has been issued.
EnteredCapturing == cycles > 0

\* C1: in a cycle capture_frame is called once per camera of the resolved
\* set, in discovery order, never twice: while a cycle runs the cameras
\* attempted are exactly those before and at the current position, and a
\* cycle that reaches its end (the wait, or the single-shot stop) has
\* attempted them all, whatever raised or returned false on the way; the
\* loop then goes on to the wait, and a camera's error never ends the run.
C1_EachCameraOncePerCycle ==
    /\ pc \in CapturePoints =>
          /\ idx \in 1..Len(cameras)
          /\ attempted = SubSeq(cameras, 1, idx)
          /\ Len(results) = idx - 1
    /\ pc = "wait" =>
          /\ attempted = cameras
          /\ Len(results) = Len(cameras)
    /\ (pc = "stopped" /\ EnteredCapturing /\ ~interrupted /\ uncaught = "none") =>
          /\ once
          /\ attempted = cameras
          /\ Len(results) = Len(cameras)
    /\ (EnteredCapturing /\ uncaught \in ClientErrors) => results = <<>>

\* A two-camera cycle of a later pass ended in the wait although the first
\* camera raised and the second returned false.
C1_Witness ==
    /\ pc = "wait"
    /\ cycles >= 2
    /\ Len(cameras) = 2
    /\ results[1].ret = "raised"
    /\ results[2].ret = "false"

\* C2: the credentials file, if present, holds what a successful login
\* produced (a session that started, or whose 2FA code was accepted).
C2_CredFileFromSuccessfulLogin == credFile \in {"absent", "login"}

\* C3: authenticate returns only a session whose start succeeded (directly
\* or by an accepted 2FA code).
C3_ReturnsStartedSession == returned \in {"none", "started", "verified"}

\* C4: when the start on the stored credentials fails other than by the
\* second-factor condition (a false result or any other error), the warning
\* is logged and authenticate is on the fresh-login path.
C4_StoredFailureFallsThrough ==
    storedOutcome \in {"false"} \cup ClientErrors =>
        /\ "warn_saved_failed" \in logged
        /\ path = "fresh"
        /\ uncaught \notin ClientErrors

\* C5: an interrupt at any suspension point ends the run cleanly: logged,
\* exit code zero, no exception leaving run_collector.
C5_InterruptStopsCleanly ==
    interrupted =>
        /\ pc = "stopped"
        /\ exitCode = 0
        /\ uncaught = "none"
        /\ "stopped_by_user" \in logged

\* C6: a rejected 2FA code ends the process with a non-zero status after
\* exactly one prompt, and no refresh, snapshot or download of a capture
\* cycle has been or will be issued.
C6_Rejected2faIsFatal ==
    session = "rejected" =>
        /\ pc = "stopped"
        /\ exitCode = 1
        /\ nprompt = 1
        /\ nrefresh = 0 /\ nsnap = 0 /\ ndownload = 0 /\ cycles = 0
        /\ returned = "none"

\* The code was rejected on the fresh-login path reached by fallback.
C6_Witness ==
    /\ session = "rejected"
    /\ path = "fresh"
    /\ storedOutcome = "false"

\* C7 as stated: every capture_frame call ends by returning a boolean.
C7_CaptureFrameNeverRaises ==
    \A i \in DOMAIN results : results[i].ret \in {"true", "false"}

\* C7 amended: capture_frame returns a boolean whenever the download call
\* returned (whatever it left on disk); an error raised by the snapshot, the
\* refresh or the download leaves capture_frame, is caught by the per-camera
\* handler of run_collector and never leaves run_collector.
C7_RaisesOnlyToPerCameraHandler ==
    \A i \in DOMAIN results :
        /\ results[i].ret \in {"true", "false"}
              <=> results[i].file \in {"full", "empty", "absent"}
        /\ results[i].ret = "raised" =>
              /\ uncaught \notin ClientErrors
              /\ (pc = "stopped" /\ ~interrupted) => exitCode = 0

\* The first camera's capture_frame raised and the second camera's capture
\* is under way.
C7_Witness ==
    /\ pc \in CapturePoints
    /\ idx = 2
    /\ results[1].ret = "raised"

\* C8: without single-shot mode and without an interrupt, the collector,
\* once in CAPTURING, never stops.
C8_LoopNeverStops ==
    (~once /\ ~interrupted /\ EnteredCapturing) => pc # "stopped"

\* The filter was supplied and names none of the discovered cameras.
FilterDisjoint ==
    HasFilter(camera_filter)
        /\ Range(camera_filter) \cap Range(discovered) = {}

\* C9: session unavailable, no camera discovered, or a filter disjoint from
\* the discovered cameras: the run has stopped with exit code 0, with no
\* output directory, no refresh, no snapshot, never having been in CAPTURING.
C9_EarlyStopBeforeCapturing ==
    (\/ available = "no"
     \/ available = "yes" /\ (discovered = <<>> \/ FilterDisjoint)) =>
        /\ pc = "stopped"
        /\ exitCode = 0
        /\ uncaught = "none"
        /\ dirs = {}
        /\ nrefresh = 0 /\ nsnap = 0 /\ ndownload = 0
        /\ ~EnteredCapturing

\* Cameras were discovered and the filter names none of them.
C9_Witness ==
    /\ available = "yes"
    /\ discovered # <<>>
    /\ FilterDisjoint
    /\ pc = "stopped"

\* C10: with a filter that names a discovered camera, the resolved set is
\* the discovered cameras the filter names, each once, in discovery order.
C10_ResolvedIsIntersection ==
    (/\ available = "yes"
     /\ HasFilter(camera_filter)
     /\ Range(camera_filter) \cap Range(discovered) # {}) =>
        /\ Range(cameras) = Range(discovered) \cap Range(camera_filter)
        /\ \A i, j \in DOMAIN cameras :
              i < j => Pos(discovered, cameras[i]) < Pos(discovered, cameras[j])
        /\ dirs = Range(cameras)

\* The filter names two discovered cameras against the discovery order, and
\* the first capture of the run is under way.
C10_Witness ==
    /\ pc = "snap"
    /\ HasFilter(camera_filter)
    /\ Len(cameras) = 2
    /\ camera_filter = <<cameras[2], cameras[1]>>

\* Captures of the current cycle that returned a boolean.
Returned == {i \in DOMAIN results : results[i].ret # "raised"}

\* A single-shot run after a fresh login that found two cameras has ended by
\* itself.
C11_Case ==
    /\ once /\ path = "fresh" /\ Len(discovered) = 2
    /\ EnteredCapturing
    /\ pc = "stopped" /\ ~interrupted /\ uncaught = "none"

\* C11: a single-shot run with two discovered cameras and a fresh login
\* performs exactly one forced refresh in the whole run.
C11_OneRefreshInRun == C11_Case => cycleRefreshes = 1

\* C11, amended: the run performs the refresh of its one cycle and one more
\* inside every capture step whose snapshot trigger returned; three when both
\* frames were downloaded.
C11_OneRefreshPlusOnePerCapture ==
    C11_Case =>
        /\ cycles = 1
        /\ Len(results) = 2
        /\ cycleRefreshes >= 1 + Cardinality(Returned)
        /\ cycleRefreshes <= 1 + Len(cameras)
        /\ (Cardinality(Returned) = 2 => cycleRefreshes = 3)

\* Both frames were downloaded and verified.
C11_Witness ==
    /\ C11_Case
    /\ \A i \in DOMAIN results : results[i].ret = "true"
    /\ cycleRefreshes = 3

\* C12: a single-shot run that entered the loop makes exactly one full pass
\* over the resolved cameras, then stops with exit code zero; it never waits
\* and never starts a second cycle.
C12_SingleShotOneFullPass ==
    (once /\ EnteredCapturing /\ ~interrupted) =>
        /\ pc # "wait"
        /\ cycles = 1
        /\ pc = "stopped" =>
            /\ exitCode = 0
            /\ attempted = cameras
            /\ Len(results) = Len(cameras)

\* C13: the delay between the starts of two consecutive cycles equals the
\* configured interval.
C13_PeriodIsInterval == period # -1 => period = interval

\* C13, amended: the delay between the starts of two consecutive cycles is the
\* time the earlier cycle took plus the interval, and the earlier cycle took at
\* least one settle delay per capture that returned.
C13_PeriodIsCycleTimePlusInterval ==
    [][(pc = "wait" /\ pc' = "cycle_refresh") =>
        /\ period' = (now - cycleStart) + interval
        /\ now - cycleStart >= SNAP_SETTLE_DELAY * Cardinality(Returned)
        /\ cycleStart' = cycleStart + period']_vars

\* The second cycle starts after a first cycle that captured two cameras.
C13_Witness ==
    /\ pc = "cycle_refresh" /\ cycles = 2
    /\ Len(cameras) = 2
    /\ interval > 0
    /\ period >= interval + 2 * SNAP_SETTLE_DELAY

\* C14: no frame file is overwritten: for every interval, zero included, and
\* a clock of one-second granularity that never moves backwards, two downloads
\* for the same camera write to distinct <timestamp>.jpg paths.
C14_NoFrameOverwritten ==
    /\ ~overwrote
    /\ \A c \in Names : targets[c] # {} => c \in Range(cameras)

\* A camera has had two downloads, with no wait between the cycles.
C14_Witness ==
    /\ interval = 0
    /\ \E c \in Names : Cardinality(targets[c]) >= 2

\* C15: an interrupt delivered while the collector waits between two cycles
\* (every camera of the cycle has a result) ends the process with exit code
\* zero, the cycle before it having attempted every resolved camera.
C15_InterruptWhileWaiting ==
    (interrupted /\ EnteredCapturing /\ Len(results) = Len(cameras)) =>
        /\ pc = "stopped"
        /\ attempted = cameras
        /\ exitCode = 0

\* C16: capture_frame returns true exactly when the download left a file of
\* non-zero size; an empty or absent file makes it return false, nothing is
\* raised, and the loop goes on to the next camera.
C16_TrueIffFileNonEmpty ==
    \A i \in DOMAIN results :
        /\ results[i].file \in {"full", "empty", "absent"} =>
            /\ results[i].ret \in {"true", "false"}
            /\ results[i].ret = "true" <=> results[i].file = "full"
            /\ uncaught \notin ClientErrors
        /\ results[i].ret = "raised" <=> results[i].file = "none"
        /\ i < Len(cameras) => Len(attempted) > i

\* The first camera's file came out empty and the second camera is being
\* captured.
C16_Witness ==
    /\ pc = "snap" /\ idx = 2
    /\ results = <<[ret |-> "false", file |-> "empty"]>>
    /\ attempted = cameras

\* C17: every return of authenticate is preceded by a save of the returned
\* session's credentials, made after the session start and any second-factor
\* exchange, on each of the three paths.
C17_SavedBeforeReturn ==
    returned # "none" =>
        /\ savedFrom = returned
        /\ session = returned
        /\ credFile = SavedBy(returned)
        /\ returned = "verified" => nprompt >= 1

\* Stored credentials that needed, and passed, the second factor.
C17_Witness ==
    /\ path = "stored"
    /\ returned = "verified"
    /\ credFile = "login"

\* The order of a capture step's events.
CaptureOrder == <<"stamp", "snap", "settle", "refresh", "download", "verify">>

\* C18: the events of a capture step occur in the order timestamp, snapshot
\* trigger, settle delay, forced refresh, download, verification; a download
\* has the step's trigger, whole settle delay and refresh before it, and the
\* file name carries the time of the trigger, not of the download.
C18_CaptureStepOrder ==
    /\ events = SubSeq(CaptureOrder, 1, Len(events))
    /\ pc \in {"snap", "settle"} => Len(events) = 2
    /\ pc = "cf_refresh" => Len(events) = 4
    /\ pc = "download" => Len(events) = 5
    /\ pc \in CapturePoints => filename = Timestamp(trigTime)
    /\ pc \in {"cf_refresh", "download"} =>
        /\ now >= trigTime + SNAP_SETTLE_DELAY
        /\ filename # Timestamp(now)

\* A step ran to its verification, the calls having taken time.
C18_Witness ==
    /\ Len(events) = 6
    /\ now > trigTime + SNAP_SETTLE_DELAY
    /\ Len(results) > 0 /\ results[Len(results)].ret = "true"

\* C19: the resolved cameras are fixed at startup: no step of the loop changes
\* them, and every cycle captures them in the same order, whatever failed, was
\* refreshed, or appeared in or left the account.
C19_ResolvedSetFixed ==
    [][(pc \in LoopPoints) =>
        (/\ cameras' = cameras
         /\ dirs' = dirs
         /\ pc' \in CapturePoints =>
                (/\ idx' \in 1..Len(cameras)
                 /\ attempted' = SubSeq(cameras, 1, idx')))]_vars

\* The account no longer holds what was discovered, and a later cycle is at
\* its last camera.
C19_Witness ==
    /\ account # discovered
    /\ cycles >= 2
    /\ Len(cameras) = 2
    /\ pc = "snap" /\ idx = 2
    /\ attempted = cameras

=============================================================================
